---- MODULE Spec2Model ----
(***************************************************************************)
(* Model of bench/run_benchmarks.py, the VHP vs PHP benchmark runner.      *)
(*                                                                         *)
(* One run of main() is a sequential process whose position is pc.  The    *)
(* environment (the two binaries, the bench directory, BENCH_ITERATIONS)   *)
(* is fixed at start; every trial's duration and exit status is an input   *)
(* of the step in which the subprocess exits.  Durations are whole         *)
(* milliseconds and means are exact fractions [n, d] in lowest terms.      *)
(***************************************************************************)
EXTENDS Integers, Sequences, FiniteSets, TLC

VARIABLES
    ITERATIONS,     \* int(os.environ.get('BENCH_ITERATIONS', '5'))
    vhpBin,         \* what VHP_BIN is: "missing", "file" (not executable), "executable"
    phpBin,         \* what running PHP_BIN -v does: "ok", "mute", "fails", "missing", "denied"
    listing,        \* the entries of BENCH_DIR in the order the filesystem lists them
    pc,             \* position of main()
    bench_files,    \* main: the sorted glob
    idx,            \* main: number of files the for loop has taken so far
    vhp_times,      \* benchmark_file: samples of the candidate
    php_times,      \* benchmark_file: samples of the reference
    child,          \* run_benchmark: <<>> or <<[returncode, time_ms]>> of the exited child
    results,        \* main: the accumulated result dicts
    summary,        \* print_summary: <<>> or <<[avg_vhp, avg_php, overall_speedup]>>
    events,         \* history: every subprocess start and exit of a trial, in order
    stdout,         \* the lines printed that the model keeps
    exit            \* <<>> while running, <<status>> once the process has ended

vars == <<ITERATIONS, vhpBin, phpBin, listing, pc, bench_files, idx, vhp_times,
          php_times, child, results, summary, events, stdout, exit>>

\* ---------------------------------------------------------------- bounds

\* A run is modelled when it needs at most this many trials (2 * ITERATIONS * files).
MaxTrials == 8
\* A trial lasts 0 .. MaxSample milliseconds.
MaxSample == 1

\* ------------------------------------------------------------- fractions

RECURSIVE GCD(_, _)
GCD(a, b) == IF b = 0 THEN a ELSE GCD(b, a % b)

\* The fraction n/d (n >= 0, d > 0) in lowest terms.
Frac(n, d) == LET g == GCD(n, d) IN [n |-> n \div g, d |-> d \div g]

Whole(k) == [n |-> k, d |-> 1]
One == Whole(1)
Zero == Whole(0)

QAdd(a, b) == Frac(a.n * b.d + b.n * a.d, a.d * b.d)
QMul(a, b) == Frac(a.n * b.n, a.d * b.d)
QLess(a, b) == a.n * b.d < b.n * a.d
QLeq(a, b) == a.n * b.d <= b.n * a.d

RECURSIVE QSum(_)
QSum(s) == IF s = <<>> THEN Zero ELSE QAdd(Head(s), QSum(Tail(s)))

\* a / b on floats: ZeroDivisionError when b is 0.
DivFaults(a, b) == b.n = 0
Div(a, b) == Frac(a.n * b.d, a.d * b.n)

\* statistics.mean(data): StatisticsError when data is empty.
MeanFaults(data) == data = <<>>
mean(data) == LET s == QSum(data) IN Frac(s.n, s.d * Len(data))

\* f"{x:.2f}": x rounded to hundredths (ties to even), as a count of hundredths.
Fmt2(x) ==
    LET h == x.n * 100
        q == h \div x.d
        r == h % x.d
    IN  IF 2 * r < x.d THEN q
        ELSE IF 2 * r > x.d THEN q + 1
        ELSE IF q % 2 = 0 THEN q ELSE q + 1

\* ------------------------------------------------------------ file names

\* ord(c) for the characters the directory entries use.
ord == [c \in {"-", ".", "a", "b", "h", "p", "t", "x"} |->
          CASE c = "-" -> 45 [] c = "." -> 46 [] c = "a" -> 97 [] c = "b" -> 98
            [] c = "h" -> 104 [] c = "p" -> 112 [] c = "t" -> 116 [] c = "x" -> 120]

\* str.__lt__: code point by code point, a proper prefix first.
RECURSIVE StrLess(_, _)
StrLess(s, t) ==
    IF t = <<>> THEN FALSE
    ELSE IF s = <<>> THEN TRUE
    ELSE IF ord[Head(s)] # ord[Head(t)] THEN ord[Head(s)] < ord[Head(t)]
    ELSE StrLess(Tail(s), Tail(t))

\* The entries BENCH_DIR may hold: a-b.php, a.php, b.php and the stray b.txt.
DirEntries ==
    { <<"a", "-", "b", ".", "p", "h", "p">>,
      <<"a", ".", "p", "h", "p">>,
      <<"b", ".", "p", "h", "p">>,
      <<"b", ".", "t", "x", "t">> }

PhpSuffix == <<".", "p", "h", "p">>

EndsWith(s, suffix) ==
    /\ Len(s) >= Len(suffix)
    /\ SubSeq(s, Len(s) - Len(suffix) + 1, Len(s)) = suffix

\* Path(BENCH_DIR).glob('*.php'): the matching entries, in listing order.
glob(entries) == SelectSeq(entries, LAMBDA e : EndsWith(e, PhpSuffix))

\* Index of the last "." of s that has a character other than "." before it, or 0.
RECURSIVE LastDot(_, _)
LastDot(s, i) ==
    IF i <= 1 THEN 0
    ELSE IF s[i] = "." /\ \E j \in 1..(i - 1) : s[j] # "." THEN i
    ELSE LastDot(s, i - 1)

\* os.path.splitext(bench_file)[0]
splitext(s) == LET k == LastDot(s, Len(s)) IN IF k = 0 THEN s ELSE SubSeq(s, 1, k - 1)

\* sorted(paths): insertion of each element into the sorted rest (stable).
RECURSIVE Insert(_, _)
Insert(x, s) ==
    IF s = <<>> THEN <<x>>
    ELSE IF ~StrLess(Head(s), x) THEN <<x>> \o s
    ELSE <<Head(s)>> \o Insert(x, Tail(s))

\* The glob taken in the order the filesystem gives it.
unsorted(s) == s

RECURSIVE sorted(_)
sorted(s) == IF s = <<>> THEN <<>> ELSE Insert(Head(s), sorted(Tail(s)))

\* ------------------------------------------------------------- the state

None == <<>>
Some(x) == <<x>>

Line(kind, cols) == [kind |-> kind, cols |-> cols]

\* sys.exit(status)
Exited(status) == Some([status |-> status, raised |-> ""])
\* An exception nothing catches: the traceback names it and the status is 1.
Raised(exception) == Some([status |-> 1, raised |-> exception])

\* Every order in which the filesystem may list a set of entries.
Listings ==
    { s \in UNION { [1..k -> DirEntries] : k \in 0..Cardinality(DirEntries) } :
        \A i, j \in DOMAIN s : i # j => s[i] # s[j] }

Init ==
    /\ ITERATIONS \in (-1)..(MaxTrials \div 2)
    /\ vhpBin \in {"missing", "file", "executable"}
    /\ phpBin \in {"ok", "mute", "fails", "missing", "denied"}
    /\ listing \in Listings
    /\ 2 * ITERATIONS * Len(glob(listing)) <= MaxTrials
    /\ pc = <<"main", "check">>
    /\ bench_files = <<>>
    /\ idx = 0
    /\ vhp_times = <<>>
    /\ php_times = <<>>
    /\ child = None
    /\ results = <<>>
    /\ summary = None
    /\ events = <<>>
    /\ stdout = <<>>
    /\ exit = None

\* ---------------------------------------------------------------- main()

\* check_binaries()
CheckBinaries ==
    /\ pc = <<"main", "check">>
    /\ IF vhpBin = "missing"
         THEN /\ stdout' = Append(stdout, Line("error", <<"VHP binary not found">>))
              /\ exit' = Exited(1)
              /\ pc' = <<"main", "exit">>
         ELSE IF phpBin \in {"fails", "missing"}
         THEN /\ stdout' = Append(stdout, Line("error", <<"PHP binary not found">>))
              /\ exit' = Exited(1)
              /\ pc' = <<"main", "exit">>
         ELSE IF phpBin = "denied"
         THEN /\ exit' = Raised("PermissionError")
              /\ pc' = <<"main", "exit">>
              /\ UNCHANGED stdout
         ELSE /\ pc' = <<"main", "versions">>
              /\ UNCHANGED <<stdout, exit>>
    /\ UNCHANGED <<ITERATIONS, vhpBin, phpBin, listing, bench_files, idx, vhp_times,
                   php_times, child, results, summary, events>>

\* get_php_version(), get_vhp_version() and the banner
GetVersions ==
    /\ pc = <<"main", "versions">>
    /\ IF phpBin = "mute"
         THEN /\ exit' = Raised("IndexError")
              /\ pc' = <<"main", "exit">>
              /\ UNCHANGED stdout
         ELSE /\ stdout' = Append(stdout, Line("iterations", <<ITERATIONS>>))
              /\ pc' = <<"main", "discover">>
              /\ UNCHANGED exit
    /\ UNCHANGED <<ITERATIONS, vhpBin, phpBin, listing, bench_files, idx, vhp_times,
                   php_times, child, results, summary, events>>

\* The empty check left out.
no_files_unchecked(files) == FALSE

\* if not bench_files:
no_files(files) == files = <<>>

\* bench_files = sorted(Path(BENCH_DIR).glob('*.php')), the empty check, results = []
Discover ==
    /\ pc = <<"main", "discover">>
    /\ bench_files' = sorted(glob(listing))
    /\ IF no_files(bench_files')
         THEN /\ stdout' = Append(stdout, Line("error", <<"No benchmark files found">>))
              /\ exit' = Exited(1)
              /\ pc' = <<"main", "exit">>
              /\ UNCHANGED results
         ELSE /\ results' = <<>>
              /\ pc' = <<"main", "loop">>
              /\ UNCHANGED <<stdout, exit>>
    /\ UNCHANGED <<ITERATIONS, vhpBin, phpBin, listing, idx, vhp_times, php_times,
                   child, summary, events>>

\* for bench_file in bench_files: benchmark_file(bench_file.name) up to its first loop
NextFile ==
    /\ pc = <<"main", "loop">>
    /\ idx < Len(bench_files)
    /\ idx' = idx + 1
    /\ stdout' = Append(stdout, Line("running", splitext(bench_files[idx'])))
    /\ vhp_times' = <<>>
    /\ pc' = <<"vhp", "loop">>
    /\ UNCHANGED <<ITERATIONS, vhpBin, phpBin, listing, bench_files, php_times, child,
                   results, summary, events, exit>>

\* ------------------------------------------------------- benchmark_file()

\* A loop that stops one pass early.
HasNextShort(times) == Len(times) < ITERATIONS - 1

\* for _ in range(ITERATIONS): whether the loop has another pass after these samples
HasNext(times) == Len(times) < ITERATIONS

Event(what, binary) == [what |-> what, file |-> bench_files[idx], binary |-> binary]

\* check=True: a child that exits non-zero raises CalledProcessError.
run_checked(rc, d) ==
    [raised |-> IF rc # 0 THEN "CalledProcessError" ELSE "", returncode |-> rc,
     time_ms |-> d]

\* subprocess.run([binary, path], capture_output=True, check=False) once the child
\* has exited with status rc after d milliseconds: the status is not looked at.
run(rc, d) == [raised |-> "", returncode |-> rc, time_ms |-> d]

\* run_benchmark(bench_file, binary): start = perf_counter() and the child is spawned.
\* VHP_BIN was only tested with isfile: spawning a file that is not executable raises.
TrialStart ==
    /\ pc[1] \in {"vhp", "php"}
    /\ pc[2] = "loop"
    /\ HasNext(IF pc[1] = "vhp" THEN vhp_times ELSE php_times)
    /\ IF pc[1] = "vhp" /\ vhpBin = "file"
         THEN /\ exit' = Raised("PermissionError")
              /\ pc' = <<"main", "exit">>
              /\ UNCHANGED events
         ELSE /\ events' = Append(events, Event("start", pc[1]))
              /\ pc' = <<pc[1], "run">>
              /\ UNCHANGED exit
    /\ UNCHANGED <<ITERATIONS, vhpBin, phpBin, listing, bench_files, idx, vhp_times,
                   php_times, child, results, summary, stdout>>

\* run_benchmark: the child exits, subprocess.run returns, end = perf_counter()
TrialExit ==
    /\ pc[1] \in {"vhp", "php"}
    /\ pc[2] = "run"
    /\ \E rc \in {0, 1}, d \in 0..MaxSample :
         LET r == run(rc, d) IN
         /\ events' = Append(events, Event("exit", pc[1]))
         /\ IF r.raised # ""
              THEN /\ exit' = Raised(r.raised)
                   /\ pc' = <<"main", "exit">>
                   /\ UNCHANGED child
              ELSE /\ child' = Some([returncode |-> r.returncode, time_ms |-> r.time_ms])
                   /\ pc' = <<pc[1], "ret">>
                   /\ UNCHANGED exit
    /\ UNCHANGED <<ITERATIONS, vhpBin, phpBin, listing, bench_files, idx, vhp_times,
                   php_times, results, summary, stdout>>

\* time_ms = run_benchmark(...); times.append(time_ms)
Collect ==
    /\ pc[1] \in {"vhp", "php"}
    /\ pc[2] = "ret"
    /\ IF pc[1] = "vhp"
         THEN /\ vhp_times' = Append(vhp_times, Whole(child[1].time_ms))
              /\ UNCHANGED php_times
         ELSE /\ php_times' = Append(php_times, Whole(child[1].time_ms))
              /\ UNCHANGED vhp_times
    /\ child' = None
    /\ pc' = <<pc[1], "loop">>
    /\ UNCHANGED <<ITERATIONS, vhpBin, phpBin, listing, bench_files, idx, results,
                   summary, events, stdout, exit>>

\* The VHP loop is over: php_times = []
StartReference ==
    /\ pc = <<"vhp", "loop">>
    /\ ~HasNext(vhp_times)
    /\ php_times' = <<>>
    /\ pc' = <<"php", "loop">>
    /\ UNCHANGED <<ITERATIONS, vhpBin, phpBin, listing, bench_files, idx, vhp_times,
                   child, results, summary, events, stdout, exit>>

\* The guard yielding 0.0 instead of 1.0.
speedup_of_zero(vhp_avg, php_avg) == IF vhp_avg.n > 0 THEN Div(php_avg, vhp_avg) ELSE Zero

\* speedup = php_avg / vhp_avg if vhp_avg > 0 else 1.0
speedup_of(vhp_avg, php_avg) == IF vhp_avg.n > 0 THEN Div(php_avg, vhp_avg) ELSE One

\* The else branch divides: slowdown = vhp_avg / php_avg
comparison_faults(vhp_avg, php_avg, speedup) ==
    ~QLeq(One, speedup) /\ DivFaults(vhp_avg, php_avg)

\* if speedup >= 1.0: "{speedup:.2f}x faster" else: "{slowdown:.2f}x slower"
comparison(vhp_avg, php_avg, speedup) ==
    IF QLeq(One, speedup)
      THEN [verdict |-> "faster", magnitude |-> Fmt2(speedup)]
      ELSE [verdict |-> "slower", magnitude |-> Fmt2(Div(vhp_avg, php_avg))]

\* The dict benchmark_file returns.
result_of(bench_name, vhp_avg, php_avg, speedup) ==
    [name |-> bench_name, vhp |-> vhp_avg, php |-> php_avg, speedup |-> speedup]

\* The PHP loop is over: the averages, the speedup, the verdict, the printed result,
\* and results.append(result) in main.
Compare ==
    /\ pc = <<"php", "loop">>
    /\ ~HasNext(php_times)
    /\ IF MeanFaults(vhp_times) \/ MeanFaults(php_times)
         THEN /\ exit' = Raised("StatisticsError")
              /\ pc' = <<"main", "exit">>
              /\ UNCHANGED <<results, stdout>>
         ELSE LET vhp_avg == mean(vhp_times)
                  php_avg == mean(php_times)
                  speedup == speedup_of(vhp_avg, php_avg)
              IN  IF comparison_faults(vhp_avg, php_avg, speedup)
                    THEN /\ exit' = Raised("ZeroDivisionError")
                         /\ pc' = <<"main", "exit">>
                         /\ UNCHANGED <<results, stdout>>
                    ELSE LET c == comparison(vhp_avg, php_avg, speedup) IN
                         /\ stdout' = Append(stdout,
                                Line("result", <<Fmt2(vhp_avg), Fmt2(php_avg),
                                                 c.verdict, c.magnitude>>))
                         /\ results' = Append(results,
                                result_of(splitext(bench_files[idx]), vhp_avg, php_avg,
                                          speedup))
                         /\ pc' = <<"main", "loop">>
                         /\ UNCHANGED exit
    /\ UNCHANGED <<ITERATIONS, vhpBin, phpBin, listing, bench_files, idx, vhp_times,
                   php_times, child, summary, events>>

\* -------------------------------------------------------- print_summary()

\* One table row: the speedup itself is shown, green when >= 1.0 and red otherwise.
row(result) ==
    Line("row", <<result.name, Fmt2(result.vhp), Fmt2(result.php),
                  IF QLeq(One, result.speedup) THEN "green" ELSE "red",
                  Fmt2(result.speedup)>>)

\* [r[key] for r in results]
vhps_of(rs) == [i \in 1..Len(rs) |-> rs[i].vhp]
phps_of(rs) == [i \in 1..Len(rs) |-> rs[i].php]

\* The mean of the per-file speedups.
overall_mean_of_ratios(rs) == mean([i \in 1..Len(rs) |-> rs[i].speedup])

\* avg_vhp = mean(vhps); avg_php = mean(phps); overall_speedup = avg_php / avg_vhp
overall_speedup_of(rs) == Div(mean(phps_of(rs)), mean(vhps_of(rs)))

\* print_summary(rs): the lines it prints, the exception it ends with ("" when it
\* returns) and its locals avg_vhp, avg_php, overall_speedup when all three exist.
print_summary(rs) ==
    LET table == <<Line("header", <<>>), Line("rule", <<>>)>>
                   \o [i \in 1..Len(rs) |-> row(rs[i])]
                   \o <<Line("rule", <<>>)>>
    IN  IF MeanFaults(vhps_of(rs)) \/ MeanFaults(phps_of(rs))
          THEN [lines |-> table, raised |-> "StatisticsError", locals |-> None]
          ELSE LET avg_vhp == mean(vhps_of(rs))
                   avg_php == mean(phps_of(rs))
               IN  IF DivFaults(avg_php, avg_vhp)
                     THEN [lines |-> table, raised |-> "ZeroDivisionError",
                           locals |-> None]
                     ELSE LET overall_speedup == overall_speedup_of(rs) IN
                          [lines |-> Append(table,
                                      Line("average",
                                           <<Fmt2(avg_vhp), Fmt2(avg_php),
                                             IF QLeq(One, overall_speedup)
                                               THEN "green" ELSE "red",
                                             Fmt2(overall_speedup)>>)),
                           raised |-> "",
                           locals |-> Some([avg_vhp |-> avg_vhp, avg_php |-> avg_php,
                                            overall_speedup |-> overall_speedup])]

\* The for loop of main is over: print_summary(results), "Benchmark complete!"
PrintSummary ==
    /\ pc = <<"main", "loop">>
    /\ ~(idx < Len(bench_files))
    /\ LET r == print_summary(results) IN
       /\ summary' = r.locals
       /\ IF r.raised # ""
            THEN /\ stdout' = stdout \o r.lines
                 /\ exit' = Raised(r.raised)
                 /\ pc' = <<"main", "exit">>
            ELSE /\ stdout' = (stdout \o r.lines) \o <<Line("complete", <<>>)>>
                 /\ exit' = Exited(0)
                 /\ pc' = <<"main", "done">>
    /\ UNCHANGED <<ITERATIONS, vhpBin, phpBin, listing, bench_files, idx, vhp_times,
                   php_times, child, results, events>>

Next ==
    \/ CheckBinaries
    \/ GetVersions
    \/ Discover
    \/ NextFile
    \/ TrialStart
    \/ TrialExit
    \/ Collect
    \/ StartReference
    \/ Compare
    \/ PrintSummary

Spec == Init /\ [][Next]_vars

\* ------------------------------------------- print_summary() called alone

\* At most this many results are handed to print_summary when it is called alone.
MaxResults == 2

\* The means ITERATIONS <= 2 samples of 0 .. MaxSample can have.
Means == { Frac(k, d) : k \in 0..(2 * MaxSample), d \in 1..2 }

\* The names benchmark_file gives the files of DirEntries, in sorted order.
BenchNames ==
    LET files == sorted(glob(CHOOSE s \in Listings : Len(s) = Cardinality(DirEntries)))
    IN  [i \in 1..Len(files) |-> splitext(files[i])]

\* The result sequences benchmark_file can build, the empty one included.
ResultSeqs ==
    LET pairs == { p \in Means \X Means :
                     /\ QLeq(p[1], Whole(MaxSample))
                     /\ QLeq(p[2], Whole(MaxSample))
                     /\ ~comparison_faults(p[1], p[2], speedup_of(p[1], p[2])) }
    IN  { [i \in 1..Len(ps) |-> result_of(BenchNames[i], ps[i][1], ps[i][2],
                                    speedup_of(ps[i][1], ps[i][2]))] :
            ps \in UNION { [1..k -> pairs] : k \in 0..MaxResults } }

InitSummary ==
    /\ ITERATIONS = 1
    /\ vhpBin = "executable"
    /\ phpBin = "ok"
    /\ listing = <<>>
    /\ pc = <<"print_summary", "call">>
    /\ bench_files = <<>>
    /\ idx = 0
    /\ vhp_times = <<>>
    /\ php_times = <<>>
    /\ child = None
    /\ results \in ResultSeqs
    /\ summary = None
    /\ events = <<>>
    /\ stdout = <<>>
    /\ exit = None

\* print_summary(results) called on its own with any result sequence.
CallPrintSummary ==
    /\ pc = <<"print_summary", "call">>
    /\ LET r == print_summary(results) IN
       /\ summary' = r.locals
       /\ stdout' = stdout \o r.lines
       /\ IF r.raised # ""
            THEN /\ exit' = Raised(r.raised)
                 /\ pc' = <<"print_summary", "raised">>
            ELSE /\ exit' = exit
                 /\ pc' = <<"print_summary", "return">>
    /\ UNCHANGED <<ITERATIONS, vhpBin, phpBin, listing, bench_files, idx, vhp_times,
                   php_times, child, results, events>>

NextSummary == CallPrintSummary

SpecSummary == InitSummary /\ [][NextSummary]_vars

\* ----------------------------------------------------------- properties

ResultLines == SelectSeq(stdout, LAMBDA l : l.kind = "result")
HasLine(kind) == \E i \in DOMAIN stdout : stdout[i].kind = kind
SummaryStarted == HasLine("header")
RaisedIs(exception) == exit # None /\ exit[1].raised = exception
InBenchmarkFile == idx >= 1 /\ ~SummaryStarted

\* The *.php entries of the directory, whatever their listed order.
PhpFiles == { listing[i] : i \in { k \in DOMAIN listing : EndsWith(listing[k], PhpSuffix) } }
\* The place of f among the *.php entries ordered by file name.
Rank(f) == 1 + Cardinality({ g \in PhpFiles : StrLess(g, f) })
Stem(f) == SubSeq(f, 1, Len(f) - 4)
Names == [i \in 1..Len(results) |-> results[i].name]

\* Number of children of (file, binary) that have exited among the first upto events.
Exits(file, binary, upto) ==
    Cardinality({ k \in 1..upto :
        events[k] = [what |-> "exit", file |-> file, binary |-> binary] })

\* C1: every stored result has speedup * vhp = php when the candidate mean is
\* positive; when the candidate mean is 0 the stored speedup is exactly 1, the
\* printed verdict is "faster", and the comparison raises no division fault.
C1_SpeedupRatio ==
    /\ Len(ResultLines) = Len(results)
    /\ \A i \in DOMAIN results :
         LET r == results[i] IN
         /\ r.vhp.n > 0 =>
              r.speedup.n * r.vhp.n * r.php.d = r.php.n * r.speedup.d * r.vhp.d
         /\ r.vhp.n = 0 => r.speedup = One /\ ResultLines[i].cols[3] = "faster"
    /\ (RaisedIs("ZeroDivisionError") /\ InBenchmarkFile) => QSum(vhp_times).n > 0

\* C1 witness: one stored result with a zero candidate mean and a positive
\* reference mean, and one with a positive candidate mean below the reference mean.
C1_Witness ==
    \E i, j \in DOMAIN results :
        /\ results[i].vhp.n = 0 /\ results[i].php.n > 0
        /\ results[j].vhp.n > 0 /\ QLess(results[j].vhp, results[j].php)

\* C2: the comparison never raises a division fault, whatever the two means are;
\* speedup >= 1 prints "faster" with the speedup, speedup < 1 prints "slower" with
\* vhp / php (at least 1.00); the stored speedup is php / vhp in both branches.
C2_VerdictAndMagnitude ==
    /\ ~(RaisedIs("ZeroDivisionError") /\ InBenchmarkFile)
    /\ Len(ResultLines) = Len(results)
    /\ \A i \in DOMAIN results :
         LET r == results[i]
             l == ResultLines[i]
         IN  /\ QLeq(One, r.speedup) =>
                  l.cols[3] = "faster" /\ l.cols[4] = Fmt2(r.speedup)
             /\ QLess(r.speedup, One) =>
                  /\ l.cols[3] = "slower"
                  /\ l.cols[4] = Fmt2(Frac(r.vhp.n * r.php.d, r.vhp.d * r.php.n))
                  /\ l.cols[4] >= 100
             /\ r.vhp.n > 0 =>
                  r.speedup.n * r.vhp.n * r.php.d = r.php.n * r.speedup.d * r.vhp.d

\* C3: every child that exits, with status zero or not, yields exactly one sample
\* and never ends the run; once a file's aggregation is over each binary has run
\* ITERATIONS trials and has ITERATIONS samples, the stored means times ITERATIONS
\* are the sums of the samples, and with one iteration the mean is the sample.
C3_ExactlyNSamples ==
    /\ idx >= 1 =>
         Exits(bench_files[idx], "vhp", Len(events))
           = Len(vhp_times) + (IF pc = <<"vhp", "ret">> THEN 1 ELSE 0)
    /\ (idx >= 1 /\ (pc[1] = "php" \/ Len(results) = idx)) =>
         Exits(bench_files[idx], "php", Len(events))
           = Len(php_times) + (IF pc = <<"php", "ret">> THEN 1 ELSE 0)
    /\ pc[2] = "ret" => child # None
    /\ (pc[1] = "php" /\ ITERATIONS >= 1) => Len(vhp_times) = ITERATIONS
    /\ (idx >= 1 /\ Len(results) = idx) =>
         LET r == results[idx] IN
         /\ ITERATIONS >= 1
         /\ Len(vhp_times) = ITERATIONS
         /\ Len(php_times) = ITERATIONS
         /\ r.vhp.n * ITERATIONS = QSum(vhp_times).n * r.vhp.d
         /\ r.php.n * ITERATIONS = QSum(php_times).n * r.php.d
         /\ ITERATIONS = 1 => r.vhp = vhp_times[1] /\ r.php = php_times[1]
    /\ ~RaisedIs("CalledProcessError")

\* C3 witness: with two iterations and two different candidate samples collected,
\* a reference child has just exited with a non-zero status.
C3_Witness ==
    /\ ITERATIONS = 2
    /\ pc = <<"php", "ret">>
    /\ child[1].returncode = 1
    /\ Len(vhp_times) = 2
    /\ vhp_times[1] # vhp_times[2]

\* C4: with ITERATIONS <= 0 a run that reaches benchmark_file ends by a fatal exit
\* with a non-zero status, never by an uncaught exception, and produces no result.
C4_NonPositiveIterationsFatal ==
    ITERATIONS <= 0 =>
        /\ results = <<>>
        /\ (idx >= 1 /\ exit # None) => exit[1].raised = "" /\ exit[1].status # 0

\* C5: a summary of a non-empty result sequence whose candidate means sum to 0 ends
\* normally with overall speedup exactly 1 shown as faster (green).
C5_SummaryZeroGuard ==
    (SummaryStarted /\ results # <<>> /\ QSum(vhps_of(results)).n = 0) =>
        /\ exit = Exited(0)
        /\ summary # None
        /\ summary[1].overall_speedup = One
        /\ \E i \in DOMAIN stdout :
             stdout[i].kind = "average" /\ stdout[i].cols[3] = "green"

\* C6: when the candidate means of a non-empty result sequence have a positive sum
\* the summary completes, and its overall speedup times the sum of the candidate
\* means is the sum of the reference means (the ratio of the two averages).
C6_OverallRatio ==
    /\ summary # None =>
         /\ QMul(summary[1].overall_speedup, QSum(vhps_of(results)))
              = QSum(phps_of(results))
         /\ QMul(summary[1].avg_vhp, Whole(Len(results))) = QSum(vhps_of(results))
         /\ QMul(summary[1].avg_php, Whole(Len(results))) = QSum(phps_of(results))
         /\ HasLine("average")
    /\ (SummaryStarted /\ results # <<>> /\ QSum(vhps_of(results)).n > 0) =>
         summary # None

\* C6 witness: a finished summary whose overall speedup is not the mean of the
\* per-file speedups.
C6_Witness ==
    /\ summary # None
    /\ QMul(summary[1].overall_speedup, Whole(Len(results)))
         # QSum([i \in 1..Len(results) |-> results[i].speedup])

\* The candidate is missing, the reference cannot be launched, or no *.php entry.
EnvironmentError ==
    \/ vhpBin = "missing"
    \/ phpBin \in {"fails", "missing", "denied"}
    \/ PhpFiles = {}

\* C7: in a run with an environment error no trial ever starts, no result and no
\* part of the summary is ever produced, the run never gets past discovery, and
\* when it has ended its status is non-zero and it left an error line or a traceback.
C7_EnvironmentErrorsAbort ==
    EnvironmentError =>
        /\ events = <<>>
        /\ results = <<>>
        /\ summary = None
        /\ ~SummaryStarted
        /\ ~HasLine("result")
        /\ pc \in { <<"main", "check">>, <<"main", "versions">>,
                    <<"main", "discover">>, <<"main", "exit">> }
        /\ exit # None =>
             /\ exit[1].status # 0
             /\ \/ exit[1].raised # ""
                \/ stdout # <<>> /\ stdout[Len(stdout)].kind = "error"

\* C7 witness: both binaries are fine, the directory holds only b.txt, and the run
\* has ended after discovery.
C7_Witness ==
    /\ vhpBin = "executable"
    /\ phpBin = "ok"
    /\ listing = << <<"b", ".", "t", "x", "t">> >>
    /\ bench_files = <<>>
    /\ exit = Exited(1)
    /\ stdout[Len(stdout)].cols = <<"No benchmark files found">>

C8_Inv ==
    /\ Len(results) <= Cardinality(PhpFiles)
    /\ \A i \in DOMAIN results :
         \E f \in PhpFiles : Rank(f) = i /\ results[i].name = Stem(f)
    /\ pc = <<"main", "done">> => Len(results) = Cardinality(PhpFiles)

\* C8: at every point the i-th result is that of the i-th *.php entry by file name,
\* whatever the listed order; a step only appends to the results; a run that
\* completes holds one result per *.php entry.
C8_ResultOrder ==
    /\ []C8_Inv
    /\ [][/\ Len(results') >= Len(results)
          /\ SubSeq(results', 1, Len(results)) = results]_vars

\* C8 witness: the directory lists b.php, a.php, a-b.php and the completed run
\* holds the results a-b, a, b.
C8_Witness ==
    /\ listing = << <<"b", ".", "p", "h", "p">>, <<"a", ".", "p", "h", "p">>,
                    <<"a", "-", "b", ".", "p", "h", "p">> >>
    /\ pc = <<"main", "done">>
    /\ Names = << <<"a", "-", "b">>, <<"a">>, <<"b">> >>

\* C9: print_summary of an empty result sequence ends by a fatal exit with a
\* non-zero status, not an exception, and has printed nothing.
C9_EmptySummaryFailsFast ==
    (pc[1] = "print_summary" /\ pc[2] # "call" /\ results = <<>>) =>
        /\ exit # None
        /\ exit[1].status # 0
        /\ exit[1].raised = ""
        /\ stdout = <<>>

\* C10: starts and exits of children alternate (at most one child at a time);
\* from one event to the next the file never moves back in name order and, within
\* a file, the binary never moves back from the reference to the candidate (so the
\* events of a file, and of a binary within it, are contiguous); the first
\* reference trial of a file starts only after ITERATIONS candidate trials of it
\* have exited; the first trial of a file starts only after both binaries have run
\* ITERATIONS trials of the file before it; the summary starts only after
\* 2 * ITERATIONS * files trials have started and exited.
C10_SequentialTrials ==
    /\ \A i \in DOMAIN events :
         IF i % 2 = 1
           THEN events[i].what = "start"
           ELSE /\ events[i].what = "exit"
                /\ events[i].file = events[i - 1].file
                /\ events[i].binary = events[i - 1].binary
    /\ Len(events) % 2 = 1 => pc[2] = "run"
    /\ events # <<>> => events[1].binary = "vhp"
    /\ \A i \in 2..Len(events) :
         LET e == events[i]
             before == events[i - 1]
         IN  IF e.file = before.file
               THEN /\ ~(before.binary = "php" /\ e.binary = "vhp")
                    /\ (before.binary = "vhp" /\ e.binary = "php") =>
                         Exits(e.file, "vhp", i - 1) = ITERATIONS
               ELSE /\ StrLess(before.file, e.file)
                    /\ e.binary = "vhp"
                    /\ Exits(before.file, "vhp", i - 1) = ITERATIONS
                    /\ Exits(before.file, "php", i - 1) = ITERATIONS
    /\ SummaryStarted => Len(events) = 2 * (2 * ITERATIONS * Cardinality(PhpFiles))
    /\ pc = <<"main", "done">> => SummaryStarted

\* C10 witness: a completed run of two iterations over two files: 8 trials.
C10_Witness ==
    /\ pc = <<"main", "done">>
    /\ ITERATIONS = 2
    /\ Cardinality(PhpFiles) = 2
    /\ Len(events) = 16

====
